---- MODULE Spec2Model ----
(***************************************************************************)
(* Affogato: natural-language-to-SQL service.                              *)
(*                                                                         *)
(* The model covers the SQL-safety pipeline of the repository:             *)
(*   src/src/chains/sql_chain.py         SQLChainManager                   *)
(*   src/src/api/endpoint/query.py       /query endpoint, direct policy    *)
(*   src/src/api/endpoint/chat.py        /chat endpoint                    *)
(*   src/src/services/database_service.py DuckDBService                    *)
(*                                                                         *)
(* SQL texts and generator outputs are sequences of one-character strings, *)
(* so that the regular expressions of the two policies and of the cleaning *)
(* step are evaluated character by character, as Python's re module does.  *)
(* Schema descriptions and error messages are TLA+ strings.                *)
(***************************************************************************)
EXTENDS Integers, Sequences, FiniteSets, TLC

VARIABLES now, cached_schema, schema_cache_time, clean_cache, last,
          threads, managers

vars == <<now, cached_schema, schema_cache_time, clean_cache, last,
          threads, managers>>

\* Optional values: Python's None, and a value that is present.
None == <<>>

Some(v) == <<v>>

Get(o) == o[1]

(***************************************************************************)
(* Characters and the str methods the code uses                            *)
(***************************************************************************)

UpperLetters ==
    <<"A","B","C","D","E","F","G","H","I","J","K","L","M",
      "N","O","P","Q","R","S","T","U","V","W","X","Y","Z">>

LowerLetters ==
    <<"a","b","c","d","e","f","g","h","i","j","k","l","m",
      "n","o","p","q","r","s","t","u","v","w","x","y","z">>

Digits == {"0","1","2","3","4","5","6","7","8","9"}

UpperSet == {UpperLetters[i] : i \in 1..26}

LowerSet == {LowerLetters[i] : i \in 1..26}

ToLower == [c \in UpperSet |->
               LowerLetters[CHOOSE i \in 1..26 : UpperLetters[i] = c]]

ToUpper == [c \in LowerSet |->
               UpperLetters[CHOOSE i \in 1..26 : LowerLetters[i] = c]]

\* str.lower() on one character.
LowerChar(c) == IF c \in UpperSet THEN ToLower[c] ELSE c

\* str.lower()
lower(s) == [i \in 1..Len(s) |-> LowerChar(s[i])]

\* The characters str.strip() removes and the regex class \s matches.
IsSpace(c) == c \in {" ", "\n", "\t", "\r"}

\* The regex class \w.
WordChars == UpperSet \cup LowerSet \cup Digits \cup {"_"}

IsWordChar(c) == c \in WordChars

\* str.strip()
strip(s) ==
    IF \A i \in 1..Len(s) : IsSpace(s[i])
    THEN <<>>
    ELSE LET first == CHOOSE i \in 1..Len(s) :
                        /\ ~IsSpace(s[i])
                        /\ \A j \in 1..(i-1) : IsSpace(s[j])
             final == CHOOSE i \in 1..Len(s) :
                        /\ ~IsSpace(s[i])
                        /\ \A j \in (i+1)..Len(s) : IsSpace(s[j])
         IN  SubSeq(s, first, final)

\* w occurs in s starting at index i.
MatchAt(s, i, w) ==
    /\ i >= 1
    /\ i + Len(w) - 1 <= Len(s)
    /\ \A k \in 1..Len(w) : s[i + k - 1] = w[k]

\* Python's "w in s".
Contains(s, w) == \E i \in 1..(Len(s) + 1) : MatchAt(s, i, w)

\* str.startswith
startswith(s, w) == MatchAt(s, 1, w)

\* str.count: the occurrences of w in s, scanned left to right without
\* overlap.
RECURSIVE CountFrom(_, _, _)
CountFrom(s, w, i) ==
    IF i + Len(w) - 1 > Len(s) THEN 0
    ELSE IF MatchAt(s, i, w) THEN 1 + CountFrom(s, w, i + Len(w))
    ELSE CountFrom(s, w, i + 1)

count(s, w) == CountFrom(s, w, 1)

\* The regex assertion \b at index i (between s[i-1] and s[i]).
WordBoundary(s, i) ==
    LET before == i - 1 >= 1 /\ i - 1 <= Len(s) /\ IsWordChar(s[i-1])
        after  == i >= 1 /\ i <= Len(s) /\ IsWordChar(s[i])
    IN  before # after

\* s[i..j-1] consists of whitespace only (the regex \s* spanning i..j-1).
SpacesBetween(s, i, j) == \A k \in i..(j-1) : IsSpace(s[k])

(***************************************************************************)
(* Words of the two policies                                               *)
(***************************************************************************)

w_select   == <<"s","e","l","e","c","t">>
w_drop     == <<"d","r","o","p">>
w_delete   == <<"d","e","l","e","t","e">>
w_update   == <<"u","p","d","a","t","e">>
w_insert   == <<"i","n","s","e","r","t">>
w_alter    == <<"a","l","t","e","r">>
w_create   == <<"c","r","e","a","t","e">>
w_truncate == <<"t","r","u","n","c","a","t","e">>
w_exec     == <<"e","x","e","c">>
w_execute  == <<"e","x","e","c","u","t","e">>
w_union    == <<"u","n","i","o","n">>
w_shutdown == <<"s","h","u","t","d","o","w","n">>

\* The alternation (drop|delete|...|execute) of query.py.
dangerous_words ==
    {w_drop, w_delete, w_update, w_insert, w_alter, w_create, w_truncate,
     w_exec, w_execute}

\* The list "dangerous" of SQLChainManager._validate_generated_sql.
dangerous ==
    {w_drop, w_delete, w_update, w_insert, w_alter, w_create, w_truncate}

\* re.search(r"\b" + word + r"\b", s)
SearchWord(s, word) ==
    \E i \in 1..Len(s) :
        /\ WordBoundary(s, i)
        /\ MatchAt(s, i, word)
        /\ WordBoundary(s, i + Len(word))

\* re.search(r";\s*(w1|w2|...)", s)
SearchAfterSeparator(s, words) ==
    \E i \in 1..Len(s) :
        /\ s[i] = ";"
        /\ \E j \in (i+1)..Len(s) :
              /\ SpacesBetween(s, i + 1, j)
              /\ \E word \in words : MatchAt(s, j, word)

\* re.search(r"/\*.*?\*/", s, re.DOTALL)
SearchBlockComment(s) ==
    \E i \in 1..Len(s) :
        /\ MatchAt(s, i, <<"/","*">>)
        /\ \E j \in (i+2)..Len(s) : MatchAt(s, j, <<"*","/">>)

\* re.search(r"union\s+select.*--", s, re.DOTALL)
SearchUnionSelect(s) ==
    \E i \in 1..Len(s) :
        /\ MatchAt(s, i, w_union)
        /\ \E j \in (i + Len(w_union) + 1)..Len(s) :
              /\ SpacesBetween(s, i + Len(w_union), j)
              /\ MatchAt(s, j, w_select)
              /\ \E k \in (j + Len(w_select))..Len(s) :
                    MatchAt(s, k, <<"-","-">>)

\* A variant of the loop over dangerous_patterns whose two keyword
\* patterns list the seven words of _validate_generated_sql only.
DangerousPatternFound_seven(sql_lower) ==
    \/ \E word \in dangerous : SearchWord(sql_lower, word)
    \/ SearchAfterSeparator(sql_lower, dangerous)
    \/ Contains(sql_lower, <<"-","-">>)
    \/ SearchBlockComment(sql_lower)
    \/ SearchUnionSelect(sql_lower)
    \/ SearchAfterSeparator(sql_lower, {w_shutdown})

\* The loop over dangerous_patterns of _validate_sql_query: some pattern
\* is found in sql_lower.
DangerousPatternFound(sql_lower) ==
    \/ \E word \in dangerous_words : SearchWord(sql_lower, word)
    \/ SearchAfterSeparator(sql_lower, dangerous_words)
    \/ Contains(sql_lower, <<"-","-">>)
    \/ SearchBlockComment(sql_lower)
    \/ SearchUnionSelect(sql_lower)
    \/ SearchAfterSeparator(sql_lower, {w_shutdown})

\* The nested-select check of _validate_sql_query: True when the query is
\* rejected for holding "select" more than twice.
TooManySelects(sql_lower) ==
    /\ Contains(SubSeq(sql_lower, 7, Len(sql_lower)), w_select)
    /\ count(sql_lower, w_select) > 2

\* DirectSQLPolicy: _validate_sql_query(sql) of the /query endpoint.
validate_sql_query(sql) ==
    LET sql_lower == strip(lower(sql))
    IN  /\ ~DangerousPatternFound(sql_lower)
        /\ startswith(sql_lower, w_select)
        /\ ~TooManySelects(sql_lower)

\* GeneratedSQLPolicy: SQLChainManager._validate_generated_sql(sql).
validate_generated_sql(sql) ==
    LET sql_lower == strip(lower(sql))
    IN  /\ startswith(sql_lower, w_select)
        /\ \A word \in dangerous : ~SearchWord(sql_lower, word)

(***************************************************************************)
(* Output cleaning: SQLChainManager._clean_sql_output                      *)
(***************************************************************************)

think_open  == <<"<","t","h","i","n","k",">">>
think_close == <<"<","/","t","h","i","n","k",">">>
\* The backquote character, written by name because the TLA+ lexer
\* rejects it inside a string.
BQ == "BACKQUOTE"

fence       == <<BQ, BQ, BQ>>
fence_sql   == <<BQ, BQ, BQ, "s","q","l">>

\* A variant of the split that keeps the whole remainder after the first
\* closing marker.
SplitRest(s, sep) ==
    LET i == CHOOSE k \in 1..Len(s) :
                /\ MatchAt(s, k, sep)
                /\ \A m \in 1..(k-1) : ~MatchAt(s, m, sep)
    IN  SubSeq(s, i + Len(sep), Len(s))

\* result.split("</think>")[1]: the text between the first closing marker
\* and the next one (or the end of the string).
SplitSecondPart(s, sep) ==
    LET i    == CHOOSE k \in 1..Len(s) :
                    /\ MatchAt(s, k, sep)
                    /\ \A m \in 1..(k-1) : ~MatchAt(s, m, sep)
        from == i + Len(sep)
        rest == SubSeq(s, from, Len(s))
    IN  IF Contains(rest, sep)
        THEN LET j == CHOOSE k \in 1..Len(rest) :
                        /\ MatchAt(rest, k, sep)
                        /\ \A m \in 1..(k-1) : ~MatchAt(rest, m, sep)
             IN  SubSeq(rest, 1, j - 1)
        ELSE rest

\* re.search(opening + r"\s*(.*?)\s*" + fence, s, re.DOTALL) succeeds: an
\* opening marker is followed by a closing fence.  "folded" is the string
\* the opening marker is compared with (lower(s) under re.IGNORECASE).
FenceOpensAt(s, folded, opening, i) ==
    /\ MatchAt(folded, i, opening)
    /\ \E k \in (i + Len(opening))..Len(s) : MatchAt(s, k, fence)

FenceFound(s, folded, opening) ==
    \E i \in 1..Len(s) : FenceOpensAt(s, folded, opening, i)

\* A variant of the extraction that returns the text between the opening
\* marker and the closing fence as it stands.
FenceInterior_untrimmed(s, folded, opening) ==
    LET i == CHOOSE k \in 1..Len(s) :
                /\ FenceOpensAt(s, folded, opening, k)
                /\ \A m \in 1..(k-1) : ~FenceOpensAt(s, folded, opening, m)
        p == i + Len(opening)
        c == CHOOSE k \in p..Len(s) :
                /\ MatchAt(s, k, fence)
                /\ \A m \in p..(k-1) : ~MatchAt(s, m, fence)
    IN  SubSeq(s, p, c - 1)

\* match.group(1).strip() of the leftmost match: the text between the
\* opening marker and the first closing fence after it, trimmed.
FenceInterior(s, folded, opening) ==
    LET i == CHOOSE k \in 1..Len(s) :
                /\ FenceOpensAt(s, folded, opening, k)
                /\ \A m \in 1..(k-1) : ~FenceOpensAt(s, folded, opening, m)
        p == i + Len(opening)
        c == CHOOSE k \in p..Len(s) :
                /\ MatchAt(s, k, fence)
                /\ \A m \in p..(k-1) : ~MatchAt(s, m, fence)
    IN  strip(SubSeq(s, p, c - 1))

\* Lines 76-80: removal of the thinking tags.
RemoveThinking(result) ==
    IF Contains(result, think_open) /\ Contains(result, think_close)
    THEN strip(SplitSecondPart(result, think_close))
    ELSE result

\* A variant of the extraction that looks for a generic code block first.
extract_code_block_generic_first(result) ==
    IF FenceFound(result, result, fence)
    THEN FenceInterior(result, result, fence)
    ELSE result

\* Lines 82-95: the sql code block, else the generic code block, else the
\* text as it is.
extract_code_block(result) ==
    IF FenceFound(result, lower(result), fence_sql)
    THEN FenceInterior(result, lower(result), fence_sql)
    ELSE IF FenceFound(result, result, fence)
    THEN FenceInterior(result, result, fence)
    ELSE result

\* The body of _clean_sql_output.
clean_sql_output(raw_output) ==
    extract_code_block(RemoveThinking(strip(raw_output)))

\* @lru_cache(maxsize=100)
maxsize == 100

\* The keys of the lru_cache after a call with key raw_output; the
\* sequence runs from least to most recently used.  A hit moves the key to
\* the end; a miss appends it and evicts the head when the cache is full.
lru_cache_call(cache, raw_output) ==
    IF \E i \in 1..Len(cache) : cache[i] = raw_output
    THEN SelectSeq(cache, LAMBDA k : k # raw_output) \o <<raw_output>>
    ELSE IF Len(cache) >= maxsize
    THEN Tail(cache) \o <<raw_output>>
    ELSE cache \o <<raw_output>>

(***************************************************************************)
(* DuckDBService                                                           *)
(***************************************************************************)

\* The answers of the store to DESCRIBE <table>: column name and type.
table_columns ==
    [users  |-> << <<"id", "INTEGER">>, <<"name", "VARCHAR">> >>,
     orders |-> << <<"id", "INTEGER">>, <<"user_id", "INTEGER">> >>,
     items  |-> << <<"sku", "VARCHAR">> >>]

\* ", ".join(f"{row['column_name']} ({row['column_type']})" for ...)
RECURSIVE columns_str(_)
columns_str(cols) ==
    IF Len(cols) = 0 THEN ""
    ELSE LET one == cols[1][1] \o " (" \o cols[1][2] \o ")"
         IN  IF Len(cols) = 1 THEN one
             ELSE one \o ", " \o columns_str(Tail(cols))

\* One entry of schema_info: the section of a table, or the placeholder
\* when DESCRIBE raised.
table_section(table_name, describe_ok) ==
    IF describe_ok
    THEN "Table: " \o table_name \o "\nColumns: "
            \o columns_str(table_columns[table_name])
    ELSE "Table: " \o table_name \o "\nColumns: [Error retrieving schema]"

\* "\n\n".join(schema_info)
RECURSIVE join_sections(_)
join_sections(sections) ==
    IF Len(sections) = 0 THEN ""
    ELSE IF Len(sections) = 1 THEN sections[1]
    ELSE sections[1] \o "\n\n" \o join_sections(Tail(sections))

\* raise RuntimeError(f"<prefix>{e}") inside "except Exception as e": the
\* error value the caller receives.  Its only argument is the message built
\* from the prefix and the text of e; e itself is the context of the new
\* exception.  The elapsed time computed next to it goes to the log only.
runtime_error(prefix, e) ==
    [type |-> "RuntimeError", args |-> <<prefix \o e>>, context |-> e]

\* DuckDBService._get_connection up to the yield: connect() and the two
\* SET statements either succeed or raise RuntimeError.  conn is what
\* connect() answers and set what the SET statements answer: "ok" or the
\* message of the exception raised.
get_connection_error(store) ==
    IF store.conn # "ok"
    THEN Some("Failed to initialize DuckDB connection: " \o store.conn)
    ELSE IF store.set # "ok"
    THEN Some("Failed to initialize DuckDB connection: " \o store.set)
    ELSE None

\* DuckDBService._get_connection as a whole: the error raised before the
\* yield, if any, and the state of the connection when the with statement
\* is left.  conn.close() runs in the finally clause of lines 42-50, which
\* is reached only after the yield; the handler of lines 33-35 raises
\* without closing a connection that connect() has opened.
get_connection(store) ==
    [error |-> get_connection_error(store),
     exception |-> IF store.conn # "ok"
                   THEN Some(runtime_error(
                          "Failed to initialize DuckDB connection: ",
                          store.conn))
                   ELSE IF store.set # "ok"
                   THEN Some(runtime_error(
                          "Failed to initialize DuckDB connection: ",
                          store.set))
                   ELSE None,
     state |-> IF store.conn # "ok" THEN "not opened"
               ELSE IF store.set # "ok" THEN "open"
               ELSE "closed"]

\* A variant of get_table_info in which a failing DESCRIBE reaches the
\* outer handler and fails the whole fetch.
get_table_info_whole_failure(store) ==
    IF get_connection_error(store) # None
    THEN [raised |-> FALSE,
          value  |-> "Error retrieving schema: "
                        \o Get(get_connection_error(store)),
          connection |-> get_connection(store).state]
    ELSE IF store.show # "ok"
    THEN [raised |-> FALSE,
          value  |-> "Error retrieving schema: " \o store.show,
          connection |-> get_connection(store).state]
    ELSE IF Len(store.tables) = 0
    THEN [raised |-> FALSE, value |-> "No tables found in database.",
          connection |-> get_connection(store).state]
    ELSE IF \E i \in 1..Len(store.tables) : store.tables[i] \in store.broken
    THEN [raised |-> FALSE,
          value  |-> "Error retrieving schema: Catalog Error",
          connection |-> get_connection(store).state]
    ELSE [raised |-> FALSE,
          value  |-> join_sections(
                        [i \in 1..Len(store.tables) |->
                            table_section(store.tables[i], TRUE)]),
          connection |-> get_connection(store).state]

\* DuckDBService.get_table_info.  store is what the store answers during
\* this call: conn and show are "ok" or the message of the exception
\* raised, tables is the listing of SHOW TABLES, broken the tables whose
\* DESCRIBE raises.  Every exception is caught at line 121 and turned into
\* a returned string, so the call itself never raises.
get_table_info(store) ==
    IF get_connection_error(store) # None
    THEN [raised |-> FALSE,
          value  |-> "Error retrieving schema: "
                        \o Get(get_connection_error(store)),
          connection |-> get_connection(store).state]
    ELSE IF store.show # "ok"
    THEN [raised |-> FALSE,
          value  |-> "Error retrieving schema: " \o store.show,
          connection |-> get_connection(store).state]
    ELSE IF Len(store.tables) = 0
    THEN [raised |-> FALSE, value |-> "No tables found in database.",
          connection |-> get_connection(store).state]
    ELSE [raised |-> FALSE,
          value  |-> join_sections(
                        [i \in 1..Len(store.tables) |->
                            table_section(store.tables[i],
                                          store.tables[i] \notin store.broken)]),
          connection |-> get_connection(store).state]

\* DuckDBService.get_table_count: the number of tables, 0 on any
\* exception.
get_table_count(store) ==
    IF get_connection_error(store) # None \/ store.show # "ok"
    THEN [raised |-> FALSE, value |-> 0,
          connection |-> get_connection(store).state]
    ELSE [raised |-> FALSE, value |-> Len(store.tables),
          connection |-> get_connection(store).state]

\* str.upper() on one character and on a string.
UpperChar(c) == IF c \in LowerSet THEN ToUpper[c] ELSE c

upper(s) == [i \in 1..Len(s) |-> UpperChar(s[i])]

\* str(n) for a natural number, as a sequence of characters.
DigitChars == <<"0","1","2","3","4","5","6","7","8","9">>

RECURSIVE int_str(_)
int_str(n) ==
    IF n < 10 THEN <<DigitChars[n + 1]>>
    ELSE int_str(n \div 10) \o <<DigitChars[(n % 10) + 1]>>

\* query.rstrip(';')
RECURSIVE rstrip_semicolon(_)
rstrip_semicolon(s) ==
    IF Len(s) > 0 /\ s[Len(s)] = ";"
    THEN rstrip_semicolon(SubSeq(s, 1, Len(s) - 1))
    ELSE s

W_SELECT == <<"S","E","L","E","C","T">>
W_LIMIT  == <<"L","I","M","I","T">>

\* DuckDBService.__init__: max_rows: int = 10000
service_max_rows == 10000

\* Lines 64-71 of DuckDBService.execute_query: the text sent to the store.
inject_limit(query, max_rows) ==
    LET query_upper == strip(upper(query))
        suffix      == W_LIMIT \o <<" ">> \o int_str(max_rows)
        endswith    == /\ Len(query_upper) >= Len(suffix)
                       /\ MatchAt(query_upper,
                                  Len(query_upper) - Len(suffix) + 1, suffix)
    IN  IF /\ max_rows # 0
           /\ startswith(query_upper, W_SELECT)
           /\ ~endswith
           /\ ~Contains(query_upper, W_LIMIT)
        THEN rstrip_semicolon(query) \o <<" ">> \o suffix
        ELSE query

\* int(digits) for a non-empty sequence of digit characters.
DigitValue(c) == CHOOSE d \in 0..9 : DigitChars[d + 1] = c

RECURSIVE parse_int(_)
parse_int(digits) ==
    IF Len(digits) = 1 THEN DigitValue(digits[1])
    ELSE 10 * parse_int(SubSeq(digits, 1, Len(digits) - 1))
            + DigitValue(digits[Len(digits)])

\* The store's reading of a statement: a LIMIT clause is the keyword LIMIT
\* as a whole word, in any letter case, followed by whitespace and a
\* number.  LimitClauseAt gives the end of the number of a clause that
\* starts at i, or 0.
LimitClauseAt(text, i) ==
    LET from == i + Len(W_LIMIT)
    IN  IF /\ MatchAt(upper(text), i, W_LIMIT)
           /\ (i = 1 \/ ~IsWordChar(text[i-1]))
           /\ from <= Len(text)
           /\ IsSpace(text[from])
        THEN LET ends == {e \in from..Len(text) :
                            \E d \in (from + 1)..e :
                               /\ \A k \in from..(d-1) : IsSpace(text[k])
                               /\ \A k \in d..e : text[k] \in Digits
                               /\ (e = Len(text) \/ text[e+1] \notin Digits)}
             IN  IF ends = {} THEN 0 ELSE CHOOSE e \in ends : TRUE
        ELSE 0

\* The number of the last LIMIT clause of the statement, if it has one.
sql_limit(text) ==
    LET clauses == {i \in 1..Len(text) : LimitClauseAt(text, i) # 0}
    IN  IF clauses = {} THEN None
        ELSE LET i == CHOOSE k \in clauses : \A m \in clauses : m <= k
                 e == LimitClauseAt(text, i)
                 d == CHOOSE k \in (i + Len(W_LIMIT))..e :
                        /\ text[k] \in Digits
                        /\ ~(text[k-1] \in Digits)
             IN  Some(parse_int(SubSeq(text, d, e)))

\* conn.execute(query).fetchdf(): the number of records the store yields
\* for the sent statement when the underlying result has "available"
\* records.
store_rows(sent, available) ==
    IF sql_limit(sent) = None THEN available
    ELSE IF Get(sql_limit(sent)) < available THEN Get(sql_limit(sent))
    ELSE available

\* A variant of execute_query that answers a failure of the
\* materialization with an empty list, as get_table_count answers 0.
service_execute_query_swallow(query, max_rows, self_max_rows, db) ==
    LET limit == IF max_rows = None \/ Get(max_rows) = 0
                 THEN self_max_rows ELSE Get(max_rows)
        opened == get_connection(db)
    IN  [raised     |-> opened.error # None \/ db.run # "ok",
         error      |-> IF opened.error # None
                        THEN Some("Failed to execute query: "
                                     \o Get(opened.error))
                        ELSE IF db.run # "ok"
                        THEN Some("Failed to execute query: " \o db.run)
                        ELSE None,
         query      |-> query,
         max_rows   |-> limit,
         sent       |-> IF opened.error # None THEN None
                        ELSE Some(inject_limit(query, limit)),
         results    |-> IF opened.error # None \/ db.run # "ok" THEN None
                        ELSE IF db.fetch # "ok" THEN Some(0)
                        ELSE Some(store_rows(inject_limit(query, limit),
                                             db.rows)),
         connection |-> opened.state]

\* DuckDBService.execute_query(query, max_rows) of a service constructed
\* with self_max_rows.  max_rows is None or Some(n).  db is what the store
\* answers during this call: conn, set, run and fetch are "ok" or the
\* message of the exception raised by connect(), by the SET statements, by
\* conn.execute(query) and by fetchdf()/to_dict(); rows is the number of
\* records of the underlying result.
service_execute_query(query, max_rows, self_max_rows, db) ==
    LET limit == IF max_rows = None \/ Get(max_rows) = 0
                 THEN self_max_rows ELSE Get(max_rows)
        sent   == inject_limit(query, limit)
        opened == get_connection(db)
    IN  IF opened.error # None
        THEN [raised     |-> TRUE,
              error      |-> Some("Failed to execute query: "
                                     \o Get(opened.error)),
              exception  |-> Some(runtime_error("Failed to execute query: ",
                                                Get(opened.error))),
              query      |-> query,
              max_rows   |-> limit,
              sent       |-> None,
              results    |-> None,
              connection |-> opened.state]
        ELSE IF db.run # "ok"
        THEN [raised     |-> TRUE,
              error      |-> Some("Failed to execute query: " \o db.run),
              exception  |-> Some(runtime_error("Failed to execute query: ",
                                                db.run)),
              query      |-> query,
              max_rows   |-> limit,
              sent       |-> Some(sent),
              results    |-> None,
              connection |-> opened.state]
        ELSE IF db.fetch # "ok"
        THEN [raised     |-> TRUE,
              error      |-> Some("Failed to execute query: " \o db.fetch),
              exception  |-> Some(runtime_error("Failed to execute query: ",
                                                db.fetch)),
              query      |-> query,
              max_rows   |-> limit,
              sent       |-> Some(sent),
              results    |-> None,
              connection |-> opened.state]
        ELSE [raised     |-> FALSE,
              error      |-> None,
              exception  |-> None,
              query      |-> query,
              max_rows   |-> limit,
              sent       |-> Some(sent),
              results    |-> Some(store_rows(sent, db.rows)),
              connection |-> opened.state]

\* DuckDBService.execute_query(query) with the default max_rows, as the
\* endpoints call it.
db_execute_query(query, db) ==
    service_execute_query(query, None, service_max_rows, db)

(***************************************************************************)
(* SQLChainManager                                                         *)
(***************************************************************************)

\* self._cache_ttl = 300
cache_ttl == 300

\* A variant of the test of lines 56-60 that treats an age equal to the
\* TTL as expired.
schema_expired_at_ttl(schema, cache_time, current_time) ==
    \/ schema = None
    \/ cache_time = None
    \/ (current_time - Get(cache_time)) >= cache_ttl

\* The test of lines 56-60: the cached schema may not be reused.
schema_expired(schema, cache_time, current_time) ==
    \/ schema = None
    \/ cache_time = None
    \/ (current_time - Get(cache_time)) > cache_ttl

\* SQLChainManager._get_schema_info at time current_time.  The result
\* holds the two fields of self after the call, whether the call raised,
\* the value returned and the answer of the store when get_table_info was
\* called (None when it was not).
get_schema_info(schema, cache_time, current_time, store) ==
    IF schema_expired(schema, cache_time, current_time)
    THEN LET info == get_table_info(store)
         IN  IF info.raised
             THEN [cached_schema     |-> schema,
                   schema_cache_time |-> cache_time,
                   raised            |-> TRUE,
                   error             |-> Some("Failed to retrieve schema info: "
                                                 \o info.value),
                   ret               |-> None,
                   store             |-> Some(store)]
             ELSE [cached_schema     |-> Some(info.value),
                   schema_cache_time |-> Some(current_time),
                   raised            |-> FALSE,
                   error             |-> None,
                   ret               |-> Some(info.value),
                   store             |-> Some(store)]
    ELSE [cached_schema     |-> schema,
          schema_cache_time |-> cache_time,
          raised            |-> FALSE,
          error             |-> None,
          ret               |-> schema,
          store             |-> None]

\* A variant of natural_language_to_sql that invokes the chain a second
\* time when the first output fails validation.
natural_language_to_sql_retry(schema, cache_time, cache, current_time, store, answers) ==
    LET s == get_schema_info(schema, cache_time, current_time, store)
        failed(msg, llm_used, new_cache) ==
            [cached_schema     |-> s.cached_schema,
             schema_cache_time |-> s.schema_cache_time,
             clean_cache       |-> new_cache,
             raised            |-> TRUE,
             error             |-> Some("Failed to generate SQL query: " \o msg),
             ret               |-> None,
             schema            |-> s,
             llm               |-> llm_used]
        llm == answers[1]
    IN  IF s.raised THEN failed(Get(s.error), <<>>, cache)
        ELSE IF ~llm.ok THEN failed(llm.error, <<llm>>, cache)
        ELSE LET cleaned_sql == clean_sql_output(llm.text)
                 new_cache   == lru_cache_call(cache, llm.text)
             IN  IF ~validate_generated_sql(cleaned_sql)
                 THEN LET again     == answers[2]
                          second    == clean_sql_output(again.text)
                          new_cache2 == lru_cache_call(new_cache, again.text)
                      IN  IF again.ok /\ validate_generated_sql(second)
                          THEN [cached_schema     |-> s.cached_schema,
                                schema_cache_time |-> s.schema_cache_time,
                                clean_cache       |-> new_cache2,
                                raised            |-> FALSE,
                                error             |-> None,
                                ret               |-> Some(second),
                                schema            |-> s,
                                llm               |-> <<llm, again>>]
                          ELSE failed("Generated SQL failed validation",
                                      <<llm, again>>, new_cache)
                 ELSE [cached_schema     |-> s.cached_schema,
                       schema_cache_time |-> s.schema_cache_time,
                       clean_cache       |-> new_cache,
                       raised            |-> FALSE,
                       error             |-> None,
                       ret               |-> Some(cleaned_sql),
                       schema            |-> s,
                       llm               |-> <<llm>>]

\* SQLChainManager.natural_language_to_sql at time current_time.
\* answers is what self.chain.invoke answers to its successive
\* invocations during this call: ok and the raw text, or the message of
\* the exception it raises.  The result holds the fields of self and the
\* cleaning cache after the call, the value returned or the message of
\* the RuntimeError raised, and the calls made: schema is the result of
\* _get_schema_info, llm the sequence of the answers that were consumed
\* (one per invocation of the chain).
natural_language_to_sql(schema, cache_time, cache, current_time, store, answers) ==
    LET s == get_schema_info(schema, cache_time, current_time, store)
        failed(msg, llm_used, new_cache) ==
            [cached_schema     |-> s.cached_schema,
             schema_cache_time |-> s.schema_cache_time,
             clean_cache       |-> new_cache,
             raised            |-> TRUE,
             error             |-> Some("Failed to generate SQL query: " \o msg),
             exception         |-> Some(runtime_error(
                                     "Failed to generate SQL query: ", msg)),
             ret               |-> None,
             schema            |-> s,
             llm               |-> llm_used]
        llm == answers[1]
    IN  IF s.raised THEN failed(Get(s.error), <<>>, cache)
        ELSE IF ~llm.ok THEN failed(llm.error, <<llm>>, cache)
        ELSE LET cleaned_sql == clean_sql_output(llm.text)
                 new_cache   == lru_cache_call(cache, llm.text)
             IN  IF ~validate_generated_sql(cleaned_sql)
                 THEN failed("Generated SQL failed validation", <<llm>>,
                             new_cache)
                 ELSE [cached_schema     |-> s.cached_schema,
                       schema_cache_time |-> s.schema_cache_time,
                       clean_cache       |-> new_cache,
                       raised            |-> FALSE,
                       error             |-> None,
                       exception         |-> None,
                       ret               |-> Some(cleaned_sql),
                       schema            |-> s,
                       llm               |-> <<llm>>]

(***************************************************************************)
(* The endpoints                                                           *)
(***************************************************************************)

\* results[: payload.max_rows] and len(results): the row count returned.
truncate_rows(rows, max_rows) ==
    IF max_rows # 0 /\ rows > max_rows THEN max_rows ELSE rows

\* What one request leaves behind: the HTTP response (status, detail of
\* the HTTPException, query and row_count of the response body), the
\* state of the chain after the request, and the calls made: nl is the
\* result of natural_language_to_sql and db the result of
\* DuckDBService.execute_query (None when not called).
response(status, detail, sql_query, rows, schema, cache_time, cache, nl, db) ==
    [status            |-> status,
     detail            |-> detail,
     query             |-> sql_query,
     row_count         |-> rows,
     cached_schema     |-> IF nl = None THEN schema
                           ELSE Get(nl).cached_schema,
     schema_cache_time |-> IF nl = None THEN cache_time
                           ELSE Get(nl).schema_cache_time,
     clean_cache       |-> IF nl = None THEN cache ELSE Get(nl).clean_cache,
     nl                |-> nl,
     db                |-> db]

invalid_sql_detail ==
    "Invalid SQL query. Only safe SELECT statements are allowed for direct queries."

\* Lines 144-205 and 209-212 of execute_query: the statement is handed to
\* DuckDBService.execute_query and the response is built from its result.
query_run(sql_query, payload, schema, cache_time, cache, nl, db) ==
    LET r == db_execute_query(sql_query, db)
    IN  IF r.raised
        THEN response(500, Some("Query execution failed: " \o Get(r.error)),
                      None, None, schema, cache_time, cache, nl, Some(r))
        ELSE response(200, None, Some(sql_query),
                      Some(truncate_rows(Get(r.results), payload.max_rows)),
                      schema, cache_time, cache, nl, Some(r))

\* A variant of execute_query that hands the direct text to the executor
\* without consulting _validate_sql_query.
execute_query_unvalidated(schema, cache_time, cache, current_time, payload, store, answers, db) ==
    LET nl == natural_language_to_sql(schema, cache_time, cache,
                                      current_time, store, answers)
    IN  IF payload.use_nlq
        THEN IF nl.raised
             THEN response(500,
                           Some("Query execution failed: " \o Get(nl.error)),
                           None, None, schema, cache_time, cache,
                           Some(nl), None)
             ELSE query_run(Get(nl.ret), payload, schema, cache_time, cache,
                            Some(nl), db)
        ELSE query_run(payload.question, payload, schema, cache_time, cache,
                       None, db)

\* A variant of execute_query without the handler of line 207: the
\* HTTPException of a rejected direct text is caught by the generic
\* handler and becomes a 500.
execute_query_generic_error(schema, cache_time, cache, current_time, payload, store, answers, db) ==
    LET nl == natural_language_to_sql(schema, cache_time, cache,
                                      current_time, store, answers)
    IN  IF payload.use_nlq
        THEN IF nl.raised
             THEN response(500,
                           Some("Query execution failed: " \o Get(nl.error)),
                           None, None, schema, cache_time, cache,
                           Some(nl), None)
             ELSE query_run(Get(nl.ret), payload, schema, cache_time, cache,
                            Some(nl), db)
        ELSE IF ~validate_sql_query(payload.question)
             THEN response(500,
                           Some("Query execution failed: 400: "
                                   \o invalid_sql_detail),
                           None, None, schema, cache_time, cache, None, None)
             ELSE query_run(payload.question, payload, schema, cache_time,
                            cache, None, db)

\* POST /query, execute_query of query.py.  payload is the validated
\* QueryRequest.  natural_language_to_sql returns a str whenever it
\* returns, so the coercion of lines 116-129 is never entered.
execute_query(schema, cache_time, cache, current_time, payload, store, answers, db) ==
    LET nl == natural_language_to_sql(schema, cache_time, cache,
                                      current_time, store, answers)
    IN  IF payload.use_nlq
        THEN IF nl.raised
             THEN response(500,
                           Some("Query execution failed: " \o Get(nl.error)),
                           None, None, schema, cache_time, cache,
                           Some(nl), None)
             ELSE query_run(Get(nl.ret), payload, schema, cache_time, cache,
                            Some(nl), db)
        ELSE IF ~validate_sql_query(payload.question)
             THEN response(400, Some(invalid_sql_detail),
                           None, None, schema, cache_time, cache, None, None)
             ELSE query_run(payload.question, payload, schema, cache_time,
                            cache, None, db)

\* The list query_keywords of _is_query_intent.
query_keywords ==
    { <<"s","h","o","w">>, <<"l","i","s","t">>, <<"g","e","t">>,
      <<"f","i","n","d">>, w_select, <<"q","u","e","r","y">>,
      <<"h","o","w"," ","m","a","n","y">>, <<"w","h","a","t">>,
      <<"w","h","o">>, <<"w","h","e","r","e">>, <<"w","h","e","n">>,
      <<"t","a","m","p","i","l","k","a","n">>, <<"l","i","h","a","t">>,
      <<"c","a","r","i">> }

\* _is_query_intent(message)
is_query_intent(message) ==
    \E keyword \in query_keywords : Contains(lower(message), keyword)

\* POST /chat, chat_endpoint of chat.py.
chat_endpoint(schema, cache_time, cache, current_time, payload, store, answers, db) ==
    LET nl == natural_language_to_sql(schema, cache_time, cache,
                                      current_time, store, answers)
    IN  IF is_query_intent(payload.message)
        THEN IF nl.raised
             THEN response(500,
                           Some("Chat interaction failed: " \o Get(nl.error)),
                           None, None, schema, cache_time, cache,
                           Some(nl), None)
             ELSE LET r == db_execute_query(Get(nl.ret), db)
                  IN  IF r.raised
                      THEN response(500,
                                    Some("Chat interaction failed: "
                                            \o Get(r.error)),
                                    None, None, schema, cache_time, cache,
                                    Some(nl), Some(r))
                      ELSE response(200, None, nl.ret, r.results,
                                    schema, cache_time, cache,
                                    Some(nl), Some(r))
        ELSE response(200, None, None, None, schema, cache_time, cache,
                      None, None)

(***************************************************************************)
(* The service as a state machine.  Requests are served one at a time;     *)
(* each action is one whole call and draws the answers of the store, of    *)
(* the text generator and of the clock from the sets below.                *)
(***************************************************************************)

\* The clock advances in steps of half a TTL; it stops after MaxTime steps.
MaxTime == 3

HalfTTL == cache_ttl \div 2

\* What the store answers to one introspection.
StoreAnswers ==
    {[conn |-> "IO Error", set |-> "ok", show |-> "ok", tables |-> <<>>,
      broken |-> {}],
     [conn |-> "ok", set |-> "ok", show |-> "Catalog Error", tables |-> <<>>,
      broken |-> {}],
     [conn |-> "ok", set |-> "ok", show |-> "ok",
      tables |-> <<"users", "orders">>, broken |-> {"orders"}]}

\* The store could not be reached during an introspection: opening the
\* connection or listing the tables failed.
StoreUnreachable(store) == store.conn # "ok" \/ store.show # "ok"

\* What the store answers to one execution.
DbAnswers ==
    {[conn |-> "IO Error", set |-> "ok", run |-> "ok", fetch |-> "ok",
      rows |-> 0],
     [conn |-> "ok", set |-> "ok", run |-> "Parser Error", fetch |-> "ok",
      rows |-> 0],
     [conn |-> "ok", set |-> "ok", run |-> "ok", fetch |-> "ok",
      rows |-> 2]}

raw_fenced_select ==
    <<BQ, BQ, BQ, "s","q","l","\n",
      "S","E","L","E","C","T"," ","x",";","\n", BQ, BQ, BQ>>

raw_drop == <<"D","R","O","P"," ","x">>

\* What the text generator answers to one invocation.
LlmAnswers ==
    {[ok |-> FALSE, error |-> "LLM error", text |-> <<>>]}
    \cup
    {[ok |-> TRUE, error |-> "", text |-> t] :
        t \in {raw_fenced_select, raw_drop}}

\* What the text generator answers during one request: the answer to the
\* first invocation, and the answer a further invocation would get.
LlmRuns ==
    {<<first, further>> :
        first \in LlmAnswers,
        further \in {[ok |-> TRUE, error |-> "", text |-> raw_fenced_select]}}

msg_show == <<"S","h","o","w"," ","x">>
msg_hi   == <<"h","i">>

sql_select == <<"S","E","L","E","C","T"," ","x">>
sql_drop   == <<"D","R","O","P"," ","x",";">>
sql_comment == <<"s","e","l","e","c","t"," ","x"," ","-","-">>

\* The requests: QueryRequest with use_nlq true, QueryRequest with use_nlq
\* false, ChatRequest.  question and message are stripped and not empty.
NlqRequests ==
    {[question |-> msg_show, use_nlq |-> TRUE, max_rows |-> m] :
        m \in {1, 1000}}

DirectRequests ==
    {[question |-> q, use_nlq |-> FALSE, max_rows |-> m] :
        q \in {sql_select, sql_drop, sql_comment}, m \in {1, 1000}}

ChatRequests == {[message |-> m] : m \in {msg_show, msg_hi}}

\* The threads of a concurrent host that call into the one
\* SQLChainManager of the process, and what each holds while it is inside
\* a call: the method it runs (op), its position (pc), the number of calls
\* it has started, and the locals current_time and the fetched schema.
Threads == {"t1", "t2"}

idle_thread ==
    [op |-> "none", pc |-> "idle", calls |-> 0, current_time |-> 0,
     info |-> None]

idle_threads == [t \in Threads |-> idle_thread]

\* Two SQLChainManager instances of one process right after __init__:
\* _cached_schema and _schema_cache_time of each.
Managers == {"A", "B"}

fresh_managers ==
    [self \in Managers |->
        [cached_schema |-> None, schema_cache_time |-> None]]

Init ==
    /\ now = 0
    /\ cached_schema = None
    /\ schema_cache_time = None
    /\ clean_cache = <<>>
    /\ threads = idle_threads
    /\ managers = fresh_managers
    /\ last = [op |-> "init"]

\* time.time() moves on.
Tick ==
    \E d \in {HalfTTL, cache_ttl} :
        /\ now + d <= MaxTime * HalfTTL
        /\ now' = now + d
        /\ last' = [op |-> "tick"]
        /\ UNCHANGED <<cached_schema, schema_cache_time, clean_cache, threads, managers>>

\* A call of SQLChainManager._get_schema_info.
GetSchemaInfo ==
    \E store \in StoreAnswers :
        \E r \in {get_schema_info(cached_schema, schema_cache_time, now,
                                   store)} :
            /\ cached_schema' = r.cached_schema
            /\ schema_cache_time' = r.schema_cache_time
            /\ last' = [op |-> "get_schema_info", res |-> r]
            /\ UNCHANGED <<now, clean_cache, threads, managers>>

\* A variant of clear_cache that leaves the lru_cache of
\* _clean_sql_output as it is.
ClearCache_schema_only ==
    /\ cached_schema' = None
    /\ schema_cache_time' = None
    /\ last' = [op     |-> "clear_cache",
                before |-> [cached_schema     |-> cached_schema,
                            schema_cache_time |-> schema_cache_time,
                            clean_cache       |-> clean_cache]]
    /\ UNCHANGED <<now, clean_cache, threads, managers>>

\* A call of SQLChainManager.clear_cache; last keeps what the three caches
\* held before the call.
ClearCache ==
    /\ cached_schema' = None
    /\ schema_cache_time' = None
    /\ clean_cache' = <<>>
    /\ last' = [op     |-> "clear_cache",
                before |-> [cached_schema     |-> cached_schema,
                            schema_cache_time |-> schema_cache_time,
                            clean_cache       |-> clean_cache]]
    /\ UNCHANGED <<now, threads, managers, threads, managers>>

\* One request served by an endpoint.
Serve(op, payload, r) ==
    /\ cached_schema' = r.cached_schema
    /\ schema_cache_time' = r.schema_cache_time
    /\ clean_cache' = r.clean_cache
    /\ last' = [op |-> op, payload |-> payload, res |-> r]
    /\ UNCHANGED <<now, threads, managers, threads, managers>>

\* POST /query with use_nlq true.
QueryNlq ==
    \E payload \in NlqRequests, store \in StoreAnswers,
       llm \in LlmRuns, db \in DbAnswers :
        \E r \in {execute_query(cached_schema, schema_cache_time,
                                 clean_cache, now, payload, store, llm, db)} :
            Serve("execute_query", payload, r)

\* POST /query with use_nlq false.
QueryDirect ==
    \E payload \in DirectRequests, store \in StoreAnswers,
       llm \in LlmRuns, db \in DbAnswers :
        \E r \in {execute_query(cached_schema, schema_cache_time,
                                 clean_cache, now, payload, store, llm, db)} :
            Serve("execute_query", payload, r)

\* POST /chat.
Chat ==
    \E payload \in ChatRequests, store \in StoreAnswers,
       llm \in LlmRuns, db \in DbAnswers :
        \E r \in {chat_endpoint(cached_schema, schema_cache_time,
                                 clean_cache, now, payload, store, llm, db)} :
            Serve("chat_endpoint", payload, r)

Next ==
    \/ Tick
    \/ GetSchemaInfo
    \/ ClearCache
    \/ QueryNlq
    \/ QueryDirect
    \/ Chat

Spec == Init /\ [][Next]_vars

(***************************************************************************)
(* The two policies applied to bounded texts.  A text is a concatenation   *)
(* of at most MaxFragments fragments.                                      *)
(***************************************************************************)

MaxFragments == 3

PolicyFragments ==
    { <<"S","E","L","E","C","T"," ">>,
      w_select,
      <<"x","s","e","l","e","c","t"," ">>,
      <<" ">>, <<"x">>, <<";">>,
      <<"-","-">>, <<"/","*">>, <<"*","/">>,
      w_shutdown,
      <<"D","R","O","P">>, <<"D","e","l","e","t","e">>, w_update,
      w_insert, w_alter, w_create, w_truncate, w_exec,
      <<"E","x","e","c","u","t","e">> }

RECURSIVE Concatenations(_)
Concatenations(n) ==
    IF n = 0 THEN {<<>>}
    ELSE LET shorter == Concatenations(n - 1)
         IN  shorter \cup {f \o t : f \in PolicyFragments, t \in shorter}

PolicyTexts == Concatenations(MaxFragments)

InitPolicy ==
    /\ now = 0
    /\ cached_schema = None
    /\ schema_cache_time = None
    /\ clean_cache = <<>>
    /\ threads = idle_threads
    /\ managers = fresh_managers
    /\ last \in {[op |-> "text", sql |-> t] : t \in PolicyTexts}

\* _validate_sql_query(sql)
ValidateDirect ==
    /\ last.op = "text"
    /\ last' = [op  |-> "validate_sql_query",
                sql |-> last.sql,
                ret |-> validate_sql_query(last.sql)]
    /\ UNCHANGED <<now, cached_schema, schema_cache_time, clean_cache, threads, managers>>

\* SQLChainManager._validate_generated_sql(sql)
ValidateGenerated ==
    /\ last.op = "text"
    /\ last' = [op  |-> "validate_generated_sql",
                sql |-> last.sql,
                ret |-> validate_generated_sql(last.sql)]
    /\ UNCHANGED <<now, cached_schema, schema_cache_time, clean_cache, threads, managers>>

NextPolicy == ValidateDirect \/ ValidateGenerated

SpecPolicy == InitPolicy /\ [][NextPolicy]_vars

(***************************************************************************)
(* Output cleaning on bounded raw outputs                                  *)
(***************************************************************************)

\* A raw output is a concatenation of at most MaxCleanFragments fragments.
MaxCleanFragments == 4

\* A wrapped output is prefix, sql block, suffix; prefix and sql text are
\* concatenations of at most MaxWrapFragments fragments, the suffix is
\* empty or one fragment.
MaxWrapFragments == 1

CleanFragments ==
    {think_open, think_close, fence, fence_sql,
     <<BQ, BQ, BQ, "S", "Q", "L">>,
     <<BQ, BQ, BQ, "x", BQ, BQ, BQ>>,
     <<"\n">>, <<" ">>, <<"a">>}

RECURSIVE ConcatenationsOf(_, _)
ConcatenationsOf(fragments, n) ==
    IF n = 0 THEN {<<>>}
    ELSE LET shorter == ConcatenationsOf(fragments, n - 1)
         IN  shorter \cup {f \o t : f \in fragments, t \in shorter}

CleanTexts == ConcatenationsOf(CleanFragments, MaxCleanFragments)

WrapTexts == ConcatenationsOf(CleanFragments, MaxWrapFragments)

\* prefix + "```sql\n" + sql + "\n```" + suffix
Wrapped(prefix, sql, suffix) ==
    prefix \o fence_sql \o <<"\n">> \o sql \o <<"\n">> \o fence \o suffix

InitClean ==
    /\ now = 0
    /\ cached_schema = None
    /\ schema_cache_time = None
    /\ clean_cache = <<>>
    /\ threads = idle_threads
    /\ managers = fresh_managers
    /\ \/ last \in {[op |-> "raw", raw |-> t] : t \in CleanTexts}
       \/ last \in {[op |-> "wrapped", prefix |-> a, sql |-> b, suffix |-> c] :
                        a \in WrapTexts, b \in WrapTexts,
                        c \in {<<>>} \cup CleanFragments}

\* SQLChainManager._clean_sql_output(raw_output)
Clean ==
    /\ last.op = "raw"
    /\ last' = [op  |-> "clean_sql_output",
                raw |-> last.raw,
                ret |-> clean_sql_output(last.raw)]
    /\ clean_cache' = lru_cache_call(clean_cache, last.raw)
    /\ UNCHANGED <<now, cached_schema, schema_cache_time, threads, managers>>

\* SQLChainManager._clean_sql_output applied to the value it returned.
CleanAgain ==
    /\ last.op = "clean_sql_output"
    /\ last' = [op    |-> "clean_again",
                raw   |-> last.raw,
                first |-> last.ret,
                ret   |-> clean_sql_output(last.ret)]
    /\ clean_cache' = lru_cache_call(clean_cache, last.ret)
    /\ UNCHANGED <<now, cached_schema, schema_cache_time, threads, managers>>

\* SQLChainManager._clean_sql_output applied to a wrapped output.
CleanWrapped ==
    /\ last.op = "wrapped"
    /\ last' = [op     |-> "clean_wrapped",
                prefix |-> last.prefix,
                sql    |-> last.sql,
                suffix |-> last.suffix,
                ret    |-> clean_sql_output(
                              Wrapped(last.prefix, last.sql, last.suffix))]
    /\ clean_cache' = lru_cache_call(clean_cache,
                          Wrapped(last.prefix, last.sql, last.suffix))
    /\ UNCHANGED <<now, cached_schema, schema_cache_time, threads, managers>>

NextClean == Clean \/ CleanAgain \/ CleanWrapped

SpecClean == InitClean /\ [][NextClean]_vars

(***************************************************************************)
(* DuckDBService on bounded statements                                     *)
(***************************************************************************)

\* A statement is a concatenation of at most MaxExecFragments fragments.
MaxExecFragments == 3

\* The max_rows the service under test is constructed with (100 in the
\* fixture of the tests, scaled down).
exec_service_max_rows == 2

ExecFragments ==
    {<<"S","E","L","E","C","T"," ","x">>,
     <<"s","e","l","e","c","t"," ","y">>,
     <<" ","F","R","O","M"," ","t">>,
     <<" ","f","r","o","m"," ","l","i","m","i","t","s">>,
     <<" ","L","I","M","I","T"," ","3">>,
     <<" ","l","i","m","i","t"," ","1">>,
     <<" ","L","I","M","I","T"," ","2">>,
     <<";">>,
     <<" ">>,
     <<"C","R","E","A","T","E"," ","T","A","B","L","E"," ","t">>}

ExecTexts == ConcatenationsOf(ExecFragments, MaxExecFragments)

\* The max_rows argument of a call: left out, or 1.
ExecMaxRows == {None, Some(1)}

\* What the store answers to one execution: a failure of connect(), of
\* the SET statements, of the statement, of the materialization, or an
\* underlying result of 0 or 3 records.
ExecAnswers ==
    {[conn |-> "IO Error", set |-> "ok", run |-> "ok", fetch |-> "ok",
      rows |-> 0],
     [conn |-> "ok", set |-> "Invalid Input Error", run |-> "ok",
      fetch |-> "ok", rows |-> 0],
     [conn |-> "ok", set |-> "ok", run |-> "Parser Error", fetch |-> "ok",
      rows |-> 0],
     [conn |-> "ok", set |-> "ok", run |-> "ok",
      fetch |-> "Out of Memory Error", rows |-> 3],
     [conn |-> "ok", set |-> "ok", run |-> "ok", fetch |-> "ok",
      rows |-> 0],
     [conn |-> "ok", set |-> "ok", run |-> "ok", fetch |-> "ok",
      rows |-> 3]}

\* What the store answers to one introspection.
IntrospectAnswers ==
    StoreAnswers \cup
    {[conn |-> "ok", set |-> "Invalid Input Error", show |-> "ok",
      tables |-> <<>>, broken |-> {}],
     [conn |-> "ok", set |-> "ok", show |-> "ok", tables |-> <<>>,
      broken |-> {}]}
    \cup
    {[conn |-> "ok", set |-> "ok", show |-> "ok", tables |-> listing,
      broken |-> failing] :
        listing \in {<<"users", "orders", "items">>, <<"items", "users">>,
                     <<"orders">>},
        failing \in SUBSET {"users", "orders", "items"}}

InitExec ==
    /\ now = 0
    /\ cached_schema = None
    /\ schema_cache_time = None
    /\ clean_cache = <<>>
    /\ threads = idle_threads
    /\ managers = fresh_managers
    /\ last \in {[op |-> "call", query |-> t, max_rows |-> n] :
                    t \in ExecTexts, n \in ExecMaxRows}

\* DuckDBService.execute_query(query, max_rows)
ExecuteQuery ==
    /\ last.op = "call"
    /\ \E db \in ExecAnswers :
         \E r \in {service_execute_query(last.query, last.max_rows,
                                         exec_service_max_rows, db)} :
            last' = [op |-> "service_execute_query", db |-> db, res |-> r]
    /\ UNCHANGED <<now, cached_schema, schema_cache_time, clean_cache, threads, managers>>

\* DuckDBService.get_table_info()
GetTableInfo ==
    /\ last.op = "call"
    /\ \E store \in IntrospectAnswers :
         last' = [op    |-> "get_table_info",
                  store |-> store,
                  res   |-> get_table_info(store)]
    /\ UNCHANGED <<now, cached_schema, schema_cache_time, clean_cache, threads, managers>>

\* DuckDBService.get_table_count()
GetTableCount ==
    /\ last.op = "call"
    /\ \E store \in IntrospectAnswers :
         last' = [op    |-> "get_table_count",
                  store |-> store,
                  res   |-> get_table_count(store)]
    /\ UNCHANGED <<now, cached_schema, schema_cache_time, clean_cache, threads, managers>>

NextExec == ExecuteQuery \/ GetTableInfo \/ GetTableCount

SpecExec == InitExec /\ [][NextExec]_vars

(***************************************************************************)
(* SQLChainManager under a concurrent host                                 *)
(***************************************************************************)

\* Each thread starts at most MaxConcCalls calls; the clock moves on at
\* most MaxConcTicks times, by more than the TTL each time.
MaxConcCalls == 2

MaxConcTicks == 1

\* What the store answers to an introspection of a refresh: two listings
\* with different schema strings.
ConcAnswers ==
    {[conn |-> "ok", set |-> "ok", show |-> "ok", tables |-> <<"users">>,
      broken |-> {}],
     [conn |-> "ok", set |-> "ok", show |-> "ok",
      tables |-> <<"users", "orders">>, broken |-> {}]}

\* last.op, last.thread and last.ret tell how the latest finished call
\* ended; last.schema_by and last.time_by name the call (thread and call
\* number) whose assignment the two fields of the cache hold, with the
\* timestamp and the schema that call holds for the other field.
InitConc ==
    /\ now = 0
    /\ cached_schema = None
    /\ schema_cache_time = None
    /\ clean_cache = <<>>
    /\ threads = idle_threads
    /\ managers = fresh_managers
    /\ last = [op |-> "init", thread |-> "none", ret |-> None,
               schema_by |-> None, time_by |-> None]

\* Thread t moves to position pc.
Goto(t, pc) == threads' = [threads EXCEPT ![t].pc = pc]

\* time.time() moves on by more than the TTL.
ConcTick ==
    /\ now < MaxConcTicks * (cache_ttl + 1)
    /\ now' = now + cache_ttl + 1
    /\ UNCHANGED <<cached_schema, schema_cache_time, clean_cache, last,
                   threads, managers>>

\* A thread enters _get_schema_info.
CallGetSchemaInfo ==
    \E t \in Threads :
        /\ threads[t].pc = "idle"
        /\ threads[t].calls < MaxConcCalls
        /\ threads' = [threads EXCEPT ![t] =
                          [op |-> "get_schema_info", pc |-> "read_time",
                           calls |-> threads[t].calls + 1,
                           current_time |-> 0, info |-> None]]
        /\ UNCHANGED <<now, cached_schema, schema_cache_time, clean_cache,
                       last, managers>>

\* Line 55: current_time = time.time()
ReadTime ==
    \E t \in Threads :
        /\ threads[t].pc = "read_time"
        /\ threads' = [threads EXCEPT ![t].current_time = now,
                                      ![t].pc = "test_schema"]
        /\ UNCHANGED <<now, cached_schema, schema_cache_time, clean_cache,
                       last, managers>>

\* Line 57: self._cached_schema is None
TestSchema ==
    \E t \in Threads :
        /\ threads[t].pc = "test_schema"
        /\ Goto(t, IF cached_schema = None THEN "fetch" ELSE "test_time")
        /\ UNCHANGED <<now, cached_schema, schema_cache_time, clean_cache,
                       last, managers>>

\* Line 58: or self._schema_cache_time is None
TestTime ==
    \E t \in Threads :
        /\ threads[t].pc = "test_time"
        /\ Goto(t, IF schema_cache_time = None THEN "fetch" ELSE "test_age")
        /\ UNCHANGED <<now, cached_schema, schema_cache_time, clean_cache,
                       last, managers>>

\* Line 59: or (current_time - self._schema_cache_time) > self._cache_ttl.
\* The attribute is read again; when it is None by now the subtraction
\* raises TypeError, outside the try of lines 61-67.
TestAge ==
    \E t \in Threads :
        /\ threads[t].pc = "test_age"
        /\ IF schema_cache_time = None
           THEN /\ Goto(t, "idle")
                /\ last' = [last EXCEPT !.op = "get_schema_info_raised",
                                        !.thread = t, !.ret = None]
           ELSE /\ Goto(t, IF threads[t].current_time
                                - Get(schema_cache_time) > cache_ttl
                           THEN "fetch" ELSE "return")
                /\ UNCHANGED last
        /\ UNCHANGED <<now, cached_schema, schema_cache_time, clean_cache,
                       managers>>

\* Line 62, right-hand side: self.db_service.get_table_info()
Fetch ==
    \E t \in Threads, store \in ConcAnswers :
        /\ threads[t].pc = "fetch"
        /\ threads' = [threads EXCEPT
                          ![t].info = Some(get_table_info(store).value),
                          ![t].pc = "store_schema"]
        /\ UNCHANGED <<now, cached_schema, schema_cache_time, clean_cache,
                       last, managers>>

\* Line 62, assignment: self._cached_schema = ...
StoreSchema ==
    \E t \in Threads :
        /\ threads[t].pc = "store_schema"
        /\ cached_schema' = threads[t].info
        /\ last' = [last EXCEPT !.schema_by =
                        Some([call         |-> <<t, threads[t].calls>>,
                              current_time |-> threads[t].current_time])]
        /\ Goto(t, "store_time")
        /\ UNCHANGED <<now, schema_cache_time, clean_cache, managers>>

\* Line 63: self._schema_cache_time = current_time
StoreTime ==
    \E t \in Threads :
        /\ threads[t].pc = "store_time"
        /\ schema_cache_time' = Some(threads[t].current_time)
        /\ last' = [last EXCEPT !.time_by =
                        Some([call |-> <<t, threads[t].calls>>,
                              info |-> threads[t].info])]
        /\ Goto(t, "return")
        /\ UNCHANGED <<now, cached_schema, clean_cache, managers>>

\* Line 68: return self._cached_schema
Return ==
    \E t \in Threads :
        /\ threads[t].pc = "return"
        /\ last' = [last EXCEPT !.op = "get_schema_info_return",
                                !.thread = t, !.ret = cached_schema]
        /\ Goto(t, "idle")
        /\ UNCHANGED <<now, cached_schema, schema_cache_time, clean_cache,
                       managers>>

\* A thread enters clear_cache.
CallClearCache ==
    \E t \in Threads :
        /\ threads[t].pc = "idle"
        /\ threads[t].calls < MaxConcCalls
        /\ threads' = [threads EXCEPT ![t] =
                          [op |-> "clear_cache", pc |-> "clear_schema",
                           calls |-> threads[t].calls + 1,
                           current_time |-> 0, info |-> None]]
        /\ UNCHANGED <<now, cached_schema, schema_cache_time, clean_cache,
                       last, managers>>

\* Line 151: self._cached_schema = None
ClearSchema ==
    \E t \in Threads :
        /\ threads[t].pc = "clear_schema"
        /\ cached_schema' = None
        /\ last' = [last EXCEPT !.schema_by = None]
        /\ Goto(t, "clear_time")
        /\ UNCHANGED <<now, schema_cache_time, clean_cache, managers>>

\* Line 152: self._schema_cache_time = None
ClearTime ==
    \E t \in Threads :
        /\ threads[t].pc = "clear_time"
        /\ schema_cache_time' = None
        /\ last' = [last EXCEPT !.time_by = None]
        /\ Goto(t, "clear_memo")
        /\ UNCHANGED <<now, cached_schema, clean_cache, managers>>

\* Line 153: self._clean_sql_output.cache_clear(), and the return.
ClearMemo ==
    \E t \in Threads :
        /\ threads[t].pc = "clear_memo"
        /\ clean_cache' = <<>>
        /\ last' = [last EXCEPT !.op = "clear_cache_return",
                                !.thread = t, !.ret = None]
        /\ Goto(t, "idle")
        /\ UNCHANGED <<now, cached_schema, schema_cache_time, managers>>

NextConc ==
    \/ ConcTick
    \/ CallGetSchemaInfo
    \/ ReadTime
    \/ TestSchema
    \/ TestTime
    \/ TestAge
    \/ Fetch
    \/ StoreSchema
    \/ StoreTime
    \/ Return
    \/ CallClearCache
    \/ ClearSchema
    \/ ClearTime
    \/ ClearMemo

SpecConc == InitConc /\ [][NextConc]_vars

(***************************************************************************)
(* The lru_cache of _clean_sql_output at its capacity                      *)
(***************************************************************************)

\* At most MaxMemoCalls calls of _clean_sql_output follow the filling.
MaxMemoCalls == 4

\* The raw outputs "1" .. "98", cleaned in this order, have filled the
\* cache up to two entries below maxsize.
memo_filled == [i \in 1..(maxsize - 2) |-> int_str(i)]

\* The raw outputs of the calls that follow: the two entries that were
\* inserted first, and four outputs that are not in the cache.
MemoRaws ==
    {int_str(1), int_str(2),
     int_str(maxsize + 1), int_str(maxsize + 2), int_str(maxsize + 3),
     int_str(maxsize + 4)}

\* last.inserted lists the keys of the cache in the order of their
\* insertion.
InitMemo ==
    /\ now = 0
    /\ cached_schema = None
    /\ schema_cache_time = None
    /\ clean_cache = memo_filled
    /\ threads = idle_threads
    /\ managers = fresh_managers
    /\ last = [op |-> "init", calls |-> 0, inserted |-> memo_filled]

\* The key is in the cache.
InCache(cache, key) == \E i \in 1..Len(cache) : cache[i] = key

\* One call of _clean_sql_output through the lru_cache wrapper.
MemoClean ==
    \E raw \in MemoRaws :
        /\ last.calls < MaxMemoCalls
        /\ clean_cache' = lru_cache_call(clean_cache, raw)
        /\ last' = [op       |-> "clean_sql_output",
                    calls    |-> last.calls + 1,
                    raw      |-> raw,
                    ret      |-> clean_sql_output(raw),
                    hit      |-> InCache(clean_cache, raw),
                    full     |-> Len(clean_cache) >= maxsize,
                    before   |-> last.inserted,
                    inserted |-> SelectSeq(
                                    IF InCache(clean_cache, raw)
                                    THEN last.inserted
                                    ELSE last.inserted \o <<raw>>,
                                    LAMBDA k : InCache(clean_cache', k))]
        /\ UNCHANGED <<now, cached_schema, schema_cache_time, threads,
                       managers>>

NextMemo == MemoClean

SpecMemo == InitMemo /\ [][NextMemo]_vars

(***************************************************************************)
(* Two SQLChainManager instances in one process                            *)
(***************************************************************************)

\* The clock advances past the TTL at most MaxManagerTicks times.
MaxManagerTicks == 1

\* The lru_cache that a call of self._clean_sql_output goes through.
\* _clean_sql_output is a staticmethod wrapped by lru_cache in the class
\* body: the wrapper and its cache belong to the class, and every instance
\* reaches the same one.
memo_of(self) == clean_cache

\* The raw outputs cleaned through the instances.
ManagerRaws == {<<"S">>, <<" ", "S">>, <<"x", ";">>}

\* Both instances are freshly constructed.
InitManagers ==
    /\ now = 0
    /\ cached_schema = None
    /\ schema_cache_time = None
    /\ clean_cache = <<>>
    /\ threads = idle_threads
    /\ managers = fresh_managers
    /\ last = [op |-> "init", self |-> "none"]

ManagerTick ==
    /\ now < MaxManagerTicks * (cache_ttl + 1)
    /\ now' = now + cache_ttl + 1
    /\ last' = [op |-> "tick", self |-> "none"]
    /\ UNCHANGED <<cached_schema, schema_cache_time, clean_cache, threads,
                   managers>>

\* self._get_schema_info()
ManagerGetSchemaInfo(self) ==
    \E store \in ConcAnswers :
        \E r \in {get_schema_info(managers[self].cached_schema,
                                   managers[self].schema_cache_time, now,
                                   store)} :
            /\ managers' = [managers EXCEPT
                               ![self] = [cached_schema     |-> r.cached_schema,
                                          schema_cache_time |-> r.schema_cache_time]]
            /\ last' = [op |-> "get_schema_info", self |-> self]
            /\ UNCHANGED <<now, cached_schema, schema_cache_time, clean_cache,
                           threads>>

\* self._clean_sql_output(raw)
ManagerClean(self) ==
    \E raw \in ManagerRaws :
        /\ clean_cache' = lru_cache_call(memo_of(self), raw)
        /\ last' = [op |-> "clean_sql_output", self |-> self]
        /\ UNCHANGED <<now, cached_schema, schema_cache_time, threads,
                       managers>>

\* self.clear_cache(): the two fields of self, then
\* self._clean_sql_output.cache_clear().
ManagerClearCache(self) ==
    /\ managers' = [managers EXCEPT
                       ![self] = [cached_schema     |-> None,
                                  schema_cache_time |-> None]]
    /\ clean_cache' = <<>>
    /\ last' = [op |-> "clear_cache", self |-> self]
    /\ UNCHANGED <<now, cached_schema, schema_cache_time, threads>>

NextManagers ==
    \/ ManagerTick
    \/ \E self \in Managers : ManagerGetSchemaInfo(self)
    \/ \E self \in Managers : ManagerClean(self)
    \/ \E self \in Managers : ManagerClearCache(self)

SpecManagers == InitManagers /\ [][NextManagers]_vars

(***************************************************************************)
(* Properties of the request paths (checked under Spec)                    *)
(***************************************************************************)

\* The last step served a request of an endpoint.
IsRequest == last.op \in {"execute_query", "chat_endpoint"}

\* The last request went through natural_language_to_sql / took the
\* direct-SQL branch.
IsNlqRequest == IsRequest /\ last.res.nl # None

IsDirectRequest ==
    /\ last.op = "execute_query"
    /\ ~last.payload.use_nlq

\* C1: every SQL text handed to DuckDBService.execute_query has been
\* accepted by the validator of its path: _validate_generated_sql for the
\* text of the NLQ path (/query with use_nlq true, /chat with query
\* intent), _validate_sql_query for direct user text.
C1_OnlyValidatedTextExecuted ==
    (IsRequest /\ last.res.db # None) =>
        IF IsDirectRequest
        THEN validate_sql_query(Get(last.res.db).query)
        ELSE /\ IsNlqRequest
             /\ validate_generated_sql(Get(last.res.db).query)

\* A direct text accepted by the policy has reached the executor.
C1_Witness ==
    /\ IsDirectRequest
    /\ last.res.db # None
    /\ Get(last.res.db).query = sql_select

\* C2: a _get_schema_info call on a filled cache returns the cached value
\* without introspection while now - fetchedAt <= TTL (the age TTL
\* included), and performs one introspection that replaces the cached
\* value and its timestamp when now - fetchedAt > TTL.
C2_TtlWindow ==
    [][ (/\ last'.op = "get_schema_info"
         /\ cached_schema # None
         /\ schema_cache_time # None)
        => IF now - Get(schema_cache_time) <= cache_ttl
           THEN /\ last'.res.store = None
                /\ last'.res.ret = cached_schema
                /\ UNCHANGED <<cached_schema, schema_cache_time>>
           ELSE /\ last'.res.store # None
                /\ cached_schema' =
                       Some(get_table_info(Get(last'.res.store)).value)
                /\ schema_cache_time' = Some(now)
                /\ last'.res.ret = cached_schema' ]_vars

\* A call at the age TTL exactly was served from the cache.
C2_Witness ==
    /\ last.op = "get_schema_info"
    /\ last.res.store = None
    /\ schema_cache_time # None
    /\ now - Get(schema_cache_time) = cache_ttl

\* C3: when the store cannot be reached during a schema fetch,
\* _get_schema_info raises and leaves the cached schema and its timestamp
\* as they were.
C3_UnreachableStoreLeavesCache ==
    [][ (/\ last'.op = "get_schema_info"
         /\ last'.res.store # None
         /\ StoreUnreachable(Get(last'.res.store)))
        => /\ last'.res.raised
           /\ last'.res.ret = None
           /\ UNCHANGED <<cached_schema, schema_cache_time>> ]_vars

\* C4: when the schema fetch of natural_language_to_sql finds the store
\* unreachable, the invocation raises, returns no SQL text and does not
\* invoke the text generator.
C4_UnreachableStoreStopsGeneration ==
    (/\ IsNlqRequest
     /\ Get(last.res.nl).schema.store # None
     /\ StoreUnreachable(Get(Get(last.res.nl).schema.store)))
    => /\ Get(last.res.nl).raised
       /\ Get(last.res.nl).ret = None
       /\ Get(last.res.nl).llm = <<>>

\* C5: natural_language_to_sql invokes the chain at most once; an output
\* rejected by _validate_generated_sql and a failing invocation both end
\* in the RuntimeError without a further invocation and without
\* execution; a returned value is the cleaned output of the one
\* invocation and passes _validate_generated_sql.
C5_SingleGeneration ==
    IsNlqRequest =>
        LET nl == Get(last.res.nl)
        IN  /\ Len(nl.llm) <= 1
            /\ (Len(nl.llm) >= 1 /\ ~nl.llm[1].ok) =>
                    /\ nl.raised
                    /\ last.res.db = None
            /\ (/\ Len(nl.llm) >= 1
                /\ nl.llm[1].ok
                /\ ~validate_generated_sql(clean_sql_output(nl.llm[1].text)))
               => /\ nl.raised
                  /\ nl.error = Some("Failed to generate SQL query: Generated SQL failed validation")
                  /\ last.res.db = None
            /\ ~nl.raised =>
                    /\ Len(nl.llm) = 1
                    /\ nl.llm[1].ok
                    /\ nl.ret = Some(clean_sql_output(nl.llm[1].text))
                    /\ validate_generated_sql(Get(nl.ret))

\* The generator's output was rejected by the policy.
C5_Witness ==
    /\ IsNlqRequest
    /\ Len(Get(last.res.nl).llm) = 1
    /\ Get(last.res.nl).llm[1].ok
    /\ Get(last.res.nl).llm[1].text = raw_drop
    /\ Get(last.res.nl).raised

\* C10: a direct-SQL request rejected by _validate_sql_query ends with
\* HTTP 400, and neither DuckDBService.execute_query nor the text
\* generator is called during the request.
C10_RejectedDirectIs400 ==
    (IsDirectRequest /\ ~validate_sql_query(last.payload.question)) =>
        /\ last.res.status = 400
        /\ last.res.detail = Some(invalid_sql_detail)
        /\ last.res.db = None
        /\ last.res.nl = None

\* A direct text was rejected.
C10_Witness ==
    /\ IsDirectRequest
    /\ last.payload.question = sql_drop
    /\ last.res.status = 400

(***************************************************************************)
(* Properties of the two policies (checked under SpecPolicy)               *)
(***************************************************************************)

\* The mutating keywords.
MutatingKeywords ==
    {w_drop, w_delete, w_update, w_insert, w_alter, w_create, w_truncate,
     w_exec, w_execute}

\* word stands in text as a whole word, in any letter case: an occurrence
\* with no letter, digit or underscore right before or right after it.
HasWholeWord(text, word) ==
    \E i \in 1..Len(text) :
        /\ MatchAt(lower(text), i, word)
        /\ (i = 1 \/ text[i-1] \notin WordChars)
        /\ (i + Len(word) > Len(text) \/ text[i + Len(word)] \notin WordChars)

HasMutatingKeyword(text) ==
    \E word \in MutatingKeywords : HasWholeWord(text, word)

\* The trimmed text starts with select in any letter case.
TrimmedStartsWithSelect(text) == startswith(lower(strip(text)), w_select)

\* The number of whole-word occurrences of word in text.
WholeWordCount(text, word) ==
    Cardinality({i \in 1..Len(text) :
        /\ MatchAt(lower(text), i, word)
        /\ (i = 1 \/ text[i-1] \notin WordChars)
        /\ (i + Len(word) > Len(text)
              \/ text[i + Len(word)] \notin WordChars)})

\* A statement separator followed, after optional whitespace, by one of
\* words.
SeparatorThen(text, words) ==
    \E i \in 1..Len(text), j \in 1..Len(text) :
        /\ text[i] = ";"
        /\ j > i
        /\ \A k \in (i+1)..(j-1) : IsSpace(text[k])
        /\ \E word \in words : MatchAt(lower(text), j, word)

\* C6: _validate_sql_query rejects every text that holds a mutating
\* keyword as a whole word, in any letter case and at any place, and every
\* text whose trimmed form does not start with select.
C6_DirectRejectsMutating ==
    (/\ last.op = "validate_sql_query"
     /\ (HasMutatingKeyword(last.sql) \/ ~TrimmedStartsWithSelect(last.sql)))
    => ~last.ret

\* A text that starts with SELECT and holds a keyword in upper case
\* further on was rejected.
C6_Witness ==
    /\ last.op = "validate_sql_query"
    /\ TrimmedStartsWithSelect(last.sql)
    /\ HasMutatingKeyword(last.sql)
    /\ ~HasMutatingKeyword(SubSeq(last.sql, 1, Len(last.sql) - 1))
    /\ last.sql # lower(last.sql)
    /\ ~last.ret

\* C7: _validate_generated_sql accepts a text if and only if its trimmed
\* form starts with select and it holds none of the nine mutating
\* keywords as a whole word.
C7_GeneratedAcceptsIff ==
    last.op = "validate_generated_sql" =>
        (last.ret <=> (/\ TrimmedStartsWithSelect(last.sql)
                       /\ ~HasMutatingKeyword(last.sql)))

\* A text free of mutating keywords, statement separators and comment
\* markers that starts with select.
SimpleSelect(text) ==
    /\ TrimmedStartsWithSelect(text)
    /\ ~HasMutatingKeyword(text)
    /\ ~Contains(text, <<";">>)
    /\ ~Contains(text, <<"-","-">>)
    /\ ~Contains(text, <<"/","*">>)
    /\ ~Contains(text, <<"*","/">>)

\* C8: on a simple SELECT, _validate_generated_sql accepts, and
\* _validate_sql_query accepts exactly when the select keyword occurs at
\* most twice, occurrences inside identifiers not counted.
C8_SimpleSelectAccepted ==
    /\ (last.op = "validate_generated_sql" /\ SimpleSelect(last.sql))
            => last.ret
    /\ (last.op = "validate_sql_query" /\ SimpleSelect(last.sql))
            => (last.ret <=> WholeWordCount(last.sql, w_select) <= 2)

\* C9: _validate_sql_query rejects every text with a line-comment marker,
\* with an opening block-comment marker (closed or not), with a separator
\* followed by a mutating keyword, or with a separator followed by
\* shutdown.
C9_DirectRejectsCommentsAndSeparators ==
    (/\ last.op = "validate_sql_query"
     /\ \/ Contains(last.sql, <<"-","-">>)
        \/ Contains(last.sql, <<"/","*">>)
        \/ SeparatorThen(last.sql, MutatingKeywords)
        \/ SeparatorThen(last.sql, {w_shutdown}))
    => ~last.ret

\* A statement separator in text is followed by a further statement: some
\* character after it is neither whitespace nor another separator.
FurtherStatement(text) ==
    \E i \in 1..Len(text), j \in 1..Len(text) :
        /\ text[i] = ";"
        /\ j > i
        /\ ~IsSpace(text[j])
        /\ text[j] # ";"

\* C11: every text accepted by _validate_sql_query or by
\* _validate_generated_sql is a single statement: no accepted text holds a
\* statement separator followed by a further statement.
C11_AcceptedIsSingleStatement ==
    (last.op \in {"validate_sql_query", "validate_generated_sql"} /\ last.ret)
    => ~FurtherStatement(last.sql)

(***************************************************************************)
(* Properties of output cleaning (checked under SpecClean)                 *)
(***************************************************************************)

\* C12: cleaning is idempotent: _clean_sql_output applied to a value it
\* returned gives that value back.
C12_CleanIdempotent ==
    last.op = "clean_again" => last.ret = last.first

\* The interior of a code block that holds a reasoning delimiter was
\* extracted and cleaned again.
C12_Witness ==
    /\ last.op = "clean_again"
    /\ FenceFound(last.raw, last.raw, fence)
    /\ last.first # last.raw
    /\ Contains(last.first, think_open)
    /\ last.ret = last.first

\* The wrapped output of the last step.
WrappedText == Wrapped(last.prefix, last.sql, last.suffix)

\* The text after the first occurrence of marker in text.
AfterFirst(text, marker) ==
    LET i == CHOOSE k \in 1..Len(text) :
                /\ MatchAt(text, k, marker)
                /\ \A m \in 1..(k-1) : ~MatchAt(text, m, marker)
    IN  SubSeq(text, i + Len(marker), Len(text))

\* The number of occurrences of marker in text.
Occurrences(text, marker) ==
    Cardinality({i \in 1..Len(text) : MatchAt(text, i, marker)})

\* The wrapped output holds both reasoning delimiters.
WrappedHasReasoning ==
    Contains(WrappedText, think_open) /\ Contains(WrappedText, think_close)

\* The block of the wrapped output survives the removal of the reasoning
\* delimiters: the one closing marker of the prefix is the first of the
\* text and the SQL text holds none.
WrappedBlockKept ==
    WrappedHasReasoning =>
        /\ Occurrences(last.prefix, think_close) = 1
        /\ ~Contains(last.sql, think_close)

\* The part of the prefix that is left in front of the block.
WrappedKeptPrefix ==
    IF WrappedHasReasoning
    THEN AfterFirst(last.prefix, think_close)
    ELSE last.prefix

\* C13 as stated: for every prefix, suffix and SQL text, cleaning the
\* wrapped output returns exactly the SQL text.
C13_WrappedReturnsSql ==
    last.op = "clean_wrapped" => last.ret = last.sql

\* C13, amended: cleaning the wrapped output returns exactly the SQL text
\* when the SQL text is trimmed and holds no fence marker, the block
\* survives the removal of the reasoning delimiters, and no sql-labelled
\* fence opens in what is left of the prefix.
C13_WrappedReturnsSqlWhenFirstBlock ==
    (/\ last.op = "clean_wrapped"
     /\ last.sql = strip(last.sql)
     /\ ~Contains(last.sql, fence)
     /\ WrappedBlockKept
     /\ ~Contains(lower(WrappedKeptPrefix), fence_sql))
    => last.ret = last.sql

\* A block behind a prefix with a closing reasoning marker and in front of
\* a suffix with an opening one was extracted.
C13_Witness ==
    /\ last.op = "clean_wrapped"
    /\ last.prefix = think_close
    /\ last.suffix = think_open
    /\ last.sql = <<"a">>
    /\ last.ret = last.sql

\* The trimmed text holds a paired reasoning delimiter: an opening marker
\* followed by a closing marker.
ReasoningPaired(text) ==
    \E i \in 1..Len(text), j \in 1..Len(text) :
        /\ MatchAt(text, i, think_open)
        /\ MatchAt(text, j, think_close)
        /\ j >= i + Len(think_open)

\* The whole remainder behind the closing marker of the pair: the first
\* closing marker that follows the first opening marker.
RemainderAfterPair(text) ==
    AfterFirst(AfterFirst(text, think_open), think_close)

\* C14: when the trimmed output holds a paired reasoning delimiter,
\* cleaning discards everything up to and including the closing marker and
\* goes on with the whole trimmed remainder, further closing markers in
\* the remainder included.
C14_WholeRemainderKept ==
    (last.op = "clean_sql_output" /\ ReasoningPaired(strip(last.raw)))
    => last.ret = extract_code_block(strip(RemainderAfterPair(strip(last.raw))))

\* The places of text where a fenced block labelled sql (in any letter
\* case) opens, and those where any fenced block opens: the marker is
\* followed by a closing fence.
ClosedAfter(text, p) == \E k \in p..Len(text) : MatchAt(text, k, fence)

LabelledBlocks(text) ==
    {i \in 1..Len(text) : /\ MatchAt(lower(text), i, fence_sql)
                          /\ ClosedAfter(text, i + Len(fence_sql))}

FencedBlocks(text) ==
    {i \in 1..Len(text) : /\ MatchAt(text, i, fence)
                          /\ ClosedAfter(text, i + Len(fence))}

Leftmost(places) == CHOOSE i \in places : \A j \in places : i <= j

\* The trimmed text between place p and the next fence.
BlockInterior(text, p) ==
    LET closing == Leftmost({k \in p..Len(text) : MatchAt(text, k, fence)})
    IN  strip(SubSeq(text, p, closing - 1))

\* The text cleaning works on after trimming and the removal of the
\* reasoning delimiters.
AfterReasoning(raw) == RemoveThinking(strip(raw))

\* C15: after trimming and the removal of the reasoning delimiters the
\* result is the trimmed interior of the first fenced block labelled sql
\* if there is one, also when an unlabelled block stands earlier; else
\* the trimmed interior of the first fenced block if there is one; else
\* the whole trimmed text.
C15_BlockPriority ==
    last.op = "clean_sql_output" =>
        LET text == AfterReasoning(last.raw)
        IN  last.ret =
              IF LabelledBlocks(text) # {}
              THEN BlockInterior(text, Leftmost(LabelledBlocks(text))
                                          + Len(fence_sql))
              ELSE IF FencedBlocks(text) # {}
              THEN BlockInterior(text, Leftmost(FencedBlocks(text))
                                          + Len(fence))
              ELSE text

\* The interior of a labelled block was returned although an unlabelled
\* block with another interior stands earlier in the text.
C15_Witness ==
    /\ last.op = "clean_sql_output"
    /\ LabelledBlocks(AfterReasoning(last.raw)) # {}
    /\ Leftmost(FencedBlocks(AfterReasoning(last.raw)))
          < Leftmost(LabelledBlocks(AfterReasoning(last.raw)))
    /\ BlockInterior(AfterReasoning(last.raw),
            Leftmost(FencedBlocks(AfterReasoning(last.raw))) + Len(fence))
          = <<"x">>
    /\ last.ret = <<"a">>

(***************************************************************************)
(* Properties of DuckDBService (checked under SpecExec)                    *)
(***************************************************************************)

\* The last step was an execute_query call that returned.
Executed == last.op = "service_execute_query" /\ ~last.res.raised

\* The text passes one of the two policies.
Vetted(text) == validate_sql_query(text) \/ validate_generated_sql(text)

\* C16: every result returned by execute_query for a vetted text holds at
\* most max_rows records, also for a statement that carries its own LIMIT
\* clause larger than max_rows.
C16_RowsWithinLimit ==
    (Executed /\ Vetted(last.res.query))
    => Get(last.res.results) <= last.res.max_rows

\* The statement is a SELECT: its trimmed text starts with select in any
\* letter case.
IsSelectStatement(text) == startswith(lower(strip(text)), w_select)

\* The statement has a LIMIT clause: the keyword as a whole word, in any
\* letter case.
HasLimitClause(text) == HasWholeWord(text, <<"l","i","m","i","t">>)

\* C17: executing a SELECT statement without LIMIT clause with max_rows N
\* returns at most N records, and exactly N when the underlying result
\* has at least N, whatever the identifiers of the statement are, those
\* whose text holds the letters limit included.
C17_SelectWithoutLimitCapped ==
    (/\ Executed
     /\ IsSelectStatement(last.res.query)
     /\ ~HasLimitClause(last.res.query))
    => /\ Get(last.res.results) <= last.res.max_rows
       /\ last.db.rows >= last.res.max_rows
              => Get(last.res.results) = last.res.max_rows

\* The trailing run of text made of terminators and whitespace starts at
\* this index (Len(text) + 1 when the run is empty).
TrailingRunStart(text) ==
    CHOOSE i \in 1..(Len(text) + 1) :
        /\ \A k \in i..Len(text) : text[k] = ";" \/ IsSpace(text[k])
        /\ (i = 1 \/ ~(text[i-1] = ";" \/ IsSpace(text[i-1])))

\* The statement with its trailing terminator removed, whitespace behind
\* the terminator included: the text up to the first terminator of the
\* trailing run, or the text itself when the run holds no terminator.
TerminatorRemoved(text) ==
    LET terminators == {k \in TrailingRunStart(text)..Len(text) :
                            text[k] = ";"}
    IN  IF terminators = {} THEN text
        ELSE SubSeq(text, 1, Leftmost(terminators) - 1)

\* C18: the text sent to the store for a SELECT without LIMIT clause is the
\* statement with its trailing terminator removed, also when whitespace
\* follows the terminator, followed by " LIMIT <max_rows>"; a statement
\* with a LIMIT clause and a statement that is not a SELECT are sent
\* unmodified.
C18_LimitInjectionTransform ==
    (last.op = "service_execute_query" /\ last.res.sent # None) =>
        IF /\ IsSelectStatement(last.res.query)
           /\ ~HasLimitClause(last.res.query)
        THEN Get(last.res.sent) =
                TerminatorRemoved(last.res.query)
                    \o <<" ","L","I","M","I","T"," ">>
                    \o int_str(last.res.max_rows)
        ELSE Get(last.res.sent) = last.res.query

\* The last step was a call of the service that opens a connection.
ServiceCall ==
    last.op \in {"service_execute_query", "get_table_info",
                 "get_table_count"}

\* C19: every connection opened by _get_connection is closed when the
\* operation that opened it returns or raises, on every exit path, a
\* failure of the safety settings right after connect() included; after
\* any call of the service no connection remains open.
C19_ConnectionsClosed ==
    ServiceCall => last.res.connection # "open"

\* What the store answered made the execution fail, and the message of the
\* exception.
ExecutionFailed(db) ==
    db.conn # "ok" \/ db.set # "ok" \/ db.run # "ok" \/ db.fetch # "ok"

FailureCause(db) ==
    IF db.conn # "ok"
    THEN "Failed to initialize DuckDB connection: " \o db.conn
    ELSE IF db.set # "ok"
    THEN "Failed to initialize DuckDB connection: " \o db.set
    ELSE IF db.run # "ok" THEN db.run
    ELSE db.fetch

\* C20: execute_query either returns all the records the store yields for
\* the sent statement, or raises the RuntimeError "Failed to execute
\* query: <cause>" and returns no records; a failure of the connection, of
\* the statement or of the materialization always ends in that error.
C20_AllOrNothing ==
    last.op = "service_execute_query" =>
        IF ExecutionFailed(last.db)
        THEN /\ last.res.raised
             /\ last.res.results = None
             /\ last.res.error =
                  Some("Failed to execute query: " \o FailureCause(last.db))
        ELSE /\ ~last.res.raised
             /\ last.res.error = None
             /\ last.res.sent # None
             /\ last.res.results =
                  Some(store_rows(Get(last.res.sent), last.db.rows))

\* The materialization of a statement that ran failed and the call raised.
C20_Witness ==
    /\ last.op = "service_execute_query"
    /\ last.db.run = "ok"
    /\ last.db.fetch # "ok"
    /\ last.res.sent # None
    /\ last.res.raised
    /\ last.res.results = None

(***************************************************************************)
(* Properties of errors, introspection and caches                          *)
(***************************************************************************)

\* The error value holds the elapsed time of the failed operation and the
\* underlying cause.
CarriesElapsedAndCause(exception) ==
    {"elapsed", "context"} \subseteq DOMAIN exception

\* C21: every error raised by natural_language_to_sql, by
\* DuckDBService.execute_query and by the connection setup carries the
\* elapsed time of the failed operation and the underlying cause in the
\* error value the caller receives.
C21_ErrorsCarryElapsedAndCause ==
    /\ (IsNlqRequest /\ Get(last.res.nl).raised)
           => CarriesElapsedAndCause(Get(Get(last.res.nl).exception))
    /\ (IsRequest /\ last.res.db # None /\ Get(last.res.db).raised)
           => CarriesElapsedAndCause(Get(Get(last.res.db).exception))

\* The section of one table: its column listing, or the placeholder when
\* describing it failed.
ExpectedSection(table, failed) ==
    IF failed
    THEN "Table: " \o table \o "\nColumns: [Error retrieving schema]"
    ELSE "Table: " \o table \o "\nColumns: "
            \o (CASE table = "users"  -> "id (INTEGER), name (VARCHAR)"
                  [] table = "orders" -> "id (INTEGER), user_id (INTEGER)"
                  [] table = "items"  -> "sku (VARCHAR)")

\* The sections of the first n tables of the listing, joined by a blank
\* line.
RECURSIVE ExpectedSchema(_, _, _)
ExpectedSchema(tables, failing, n) ==
    IF n = 1 THEN ExpectedSection(tables[1], tables[1] \in failing)
    ELSE ExpectedSchema(tables, failing, n - 1) \o "\n\n"
            \o ExpectedSection(tables[n], tables[n] \in failing)

\* The store was reached and listed at least one table.
TablesListed(store) ==
    /\ store.conn = "ok"
    /\ store.set = "ok"
    /\ store.show = "ok"
    /\ Len(store.tables) > 0

\* C22: when describing some of the listed tables fails, get_table_info
\* still returns one section per table in listing order, joined by a blank
\* line: the placeholder section for each failing table, the column
\* listing for every other table; any number of tables may fail.
C22_PerTableFailureAbsorbed ==
    (last.op = "get_table_info" /\ TablesListed(last.store)) =>
        /\ ~last.res.raised
        /\ last.res.value = ExpectedSchema(last.store.tables,
                                           last.store.broken,
                                           Len(last.store.tables))

\* The second of three tables failed; its placeholder stands between the
\* listings of the first and the third.
C22_Witness ==
    /\ last.op = "get_table_info"
    /\ TablesListed(last.store)
    /\ last.store.tables = <<"users", "orders", "items">>
    /\ last.store.broken = {"orders"}
    /\ last.res.value =
         "Table: users\nColumns: id (INTEGER), name (VARCHAR)\n\nTable: orders\nColumns: [Error retrieving schema]\n\nTable: items\nColumns: sku (VARCHAR)"

\* C23: clear_cache sets the cached schema and its timestamp to None and
\* empties the lru_cache of _clean_sql_output, whatever they held; a
\* _get_schema_info call that finds the cleared cache calls
\* get_table_info, also when the cleared value was within its TTL.
C23_ClearResetsAll ==
    [][ /\ last'.op = "clear_cache"
            => /\ cached_schema' = None
               /\ schema_cache_time' = None
               /\ clean_cache' = <<>>
        /\ (/\ last'.op = "get_schema_info"
            /\ cached_schema = None
            /\ schema_cache_time = None)
            => last'.res.store # None
        /\ (/\ last.op = "clear_cache"
            /\ last'.op \in {"execute_query", "chat_endpoint"}
            /\ last'.res.nl # None)
            => Get(last'.res.nl).schema.store # None ]_vars

\* clear_cache ran on a schema within its TTL and a filled lru_cache.
C23_Witness ==
    /\ last.op = "clear_cache"
    /\ last.before.cached_schema # None
    /\ last.before.schema_cache_time # None
    /\ now - Get(last.before.schema_cache_time) <= cache_ttl
    /\ last.before.clean_cache # <<>>
    /\ cached_schema = None
    /\ schema_cache_time = None
    /\ clean_cache = <<>>

\* No thread stands between the two assignments of a refresh or of a
\* clear_cache.
NoWriteInProgress ==
    \A t \in Threads : threads[t].pc \notin {"store_time", "clear_time"}

\* C24: under concurrent refreshes the cache is replaced atomically: the
\* stored schema and the stored timestamp are the pair of one single
\* refresh, never the schema of one refresh with the timestamp of
\* another, at every point where no refresh stands between its two
\* assignments.
C24_PairWrittenByOneRefresh ==
    (/\ cached_schema # None
     /\ schema_cache_time # None
     /\ NoWriteInProgress)
    => /\ last.schema_by # None
       /\ last.time_by # None
       /\ \/ Get(last.schema_by).current_time = Get(schema_cache_time)
          \/ Get(last.time_by).info = cached_schema

\* C25: the lru_cache of _clean_sql_output never holds more than maxsize
\* entries; a miss on a full cache evicts the entry that was inserted
\* first, however recently that entry was looked up; a hit returns the
\* value a fresh cleaning of the raw output gives.
C25_OldestInsertedEvicted ==
    /\ Len(clean_cache) <= maxsize
    /\ last.op = "clean_sql_output" =>
          /\ last.hit => last.ret = extract_code_block(
                                       RemoveThinking(strip(last.raw)))
          /\ (~last.hit /\ last.full) =>
                /\ ~InCache(clean_cache, Head(last.before))
                /\ last.inserted = Tail(last.before) \o <<last.raw>>

\* C26: the caches belong to one instance: clear_cache on an instance and
\* a cleaning through it leave the cached schema, the schema timestamp and
\* the entries of the cleaning cache of the other instance as they were.
C26_CachesPerInstance ==
    [][\A self \in Managers : \A other \in Managers \ {self} :
          (last'.self = self /\ last'.op \in {"clear_cache", "clean_sql_output"})
          => /\ managers'[other] = managers[other]
             /\ memo_of(other)' = memo_of(other)]_vars

\* C27: under every interleaving of _get_schema_info with clear_cache on
\* one instance, a call of _get_schema_info that returns without raising
\* returns a schema string and never None.
C27_ReturnNeverAbsent ==
    last.op = "get_schema_info_return" => last.ret # None

====
